---------------------------- MODULE Spec2Model ----------------------------
(***************************************************************************)
(* HabitQuest: the habits router and the gamification helpers.             *)
(*                                                                         *)
(* The database tables the handlers read and write are the variables       *)
(* habits, completions, user, userAchievements and activityLog; `today' is *)
(* startOfDay(new Date()) as a day number.  Every handler is a chain of    *)
(* awaited database calls; each call (with the local computation that      *)
(* follows it up to the next await) is one step operator on a state        *)
(* record, taken from the handler's code.  The concurrent specification    *)
(* interleaves the steps of several requests; the sequential ones run a    *)
(* handler's steps to completion in one action (requests one at a time).   *)
(* SpecCalc applies the pure helper functions to inputs drawn in Init.     *)
(***************************************************************************)
EXTENDS Integers, Sequences, FiniteSets, TLC

\* ------------------------------------------------------------------ bounds

\* Day numbers 0..MaxDay; the clock starts at StartDay and may advance.
MaxDay == 3

\* Guard on the stored XP so that the XP specification stays finite.
MaxXP == 400

\* The XP values the level and rank helpers are applied to: 0..MaxLevelXP
MaxLevelXP == 4100
MaxStreak == 36
MaxBonusDays == 2
MaxBalance == 50
MaxRepairs == 2

Days == 0..MaxDay

\* The ids the database gives new habit rows, in the order it gives them
HabitOrder == <<"h1", "h2">>

HabitIds == {HabitOrder[k] : k \in 1..Len(HabitOrder)}

Procs == {1, 2}

UserId == "u1"

\* Another user, who owns habits the requesting user may name
OtherUserId == "u2"

\* ----------------------------------------------------------- program data

\* createHabitSchema: difficulty: z.number().min(1).max(5).default(3)
Difficulties == 1..5

DefaultDifficulty == 3

\* take: 365 in calculateStreak, i < 365 in updateUserStreak
Lookback == 365

\* const baseXP = 10 in calculateXPReward
baseXP == 10

\* [0.5, 0.75, 1, 1.5, 2] in hundredths
multiplierTimes100 == <<50, 75, 100, 150, 200>>

\* The rows of the achievement table (database content; the code reads
\* criteriaType, criteriaConfig.threshold and xpReward of each row).  One row
\* per criteria type the switch knows and one of a type it does not know.
AchievementOrder == <<"a1", "a2", "a3">>

AchievementIds == {AchievementOrder[k] : k \in 1..Len(AchievementOrder)}

Achievement ==
  [a1 |-> [criteriaType |-> "streak", threshold |-> 2, xpReward |-> 25],
   a2 |-> [criteriaType |-> "total_completions", threshold |-> 2, xpReward |-> 50],
   a3 |-> [criteriaType |-> "level", threshold |-> 1, xpReward |-> 100]]

\* habitCompletion has the compound unique key habitId_date (the where
\* clause of findUnique names it)
HabitCompletionKeyUnique == TRUE

\* The key of the userAchievement table.  Its declaration is in the database
\* schema; the handlers only ever call create and findMany on the table and
\* name no compound key of it.  The persistence layer is stated to guarantee
\* one uniqueness constraint, the one on completion records.
UserAchievementKeyUnique == FALSE

\* RESOURCE_COSTS of the gamification router
\* daysAgo: z.number().min(1).max(7)
MaxDaysAgo == 7

RESOURCE_COSTS ==
  [STREAK_REPAIR_1 |-> [resource |-> "GOLD", amount |-> 50],
   STREAK_REPAIR_2 |-> [resource |-> "ELIXIR", amount |-> 25],
   STREAK_REPAIR_3 |-> [resource |-> "DARK_MATTER", amount |-> 10]]

\* ---------------------------------------------------------------- helpers

Max(a, b) == IF a >= b THEN a ELSE b

Min(a, b) == IF a <= b THEN a ELSE b

\* Math.round(num / den) for den > 0: the nearest integer, halves upwards
MathRound(num, den) == (2 * num + den) \div (2 * den)

RECURSIVE SumOver(_, _)
SumOver(S, f) ==
  IF S = {} THEN 0
  ELSE LET x == CHOOSE y \in S : TRUE IN f[x] + SumOver(S \ {x}, f)

\* orderBy: { date: 'desc' } over a set of day numbers: the k-th element is
\* the one with k - 1 larger ones
SortDesc(S) ==
  [k \in 1..Cardinality(S) |->
     CHOOSE x \in S : Cardinality({y \in S : y > x}) = k - 1]

Take(seq, n) == IF Len(seq) <= n THEN seq ELSE SubSeq(seq, 1, n)

\* date-fns differenceInDays of two startOfDay dates, and subDays(d, 1)
differenceInDays(a, b) == a - b

subDay(d) == d - 1


\* ------------------------------------------------------- pure helper code

\* calculateXPReward: Math.round(baseXP * multiplier * 10) / 10 * 10, where
\* multiplier = [0.5, 0.75, 1, 1.5, 2][difficulty - 1] || 1.  The division by
\* 10 and the multiplication by 10 are exact for these values.
calculateXPReward(difficulty) ==
  LET m100 == IF difficulty \in 1..Len(multiplierTimes100)
              THEN multiplierTimes100[difficulty] ELSE 100
      rounded == MathRound(baseXP * m100 * 10, 100)
  IN (rounded * 10) \div 10

\* Mutant of streakLoop: a record one day behind the cursor ends the loop
\* (no tolerance for a missing record today)
RECURSIVE streakLoop_noTolerance(_, _, _, _)
streakLoop_noTolerance(dates, k, streak, currentDate) ==
  IF k > Len(dates) THEN streak
  ELSE IF differenceInDays(currentDate, dates[k]) = 0
       THEN streakLoop_noTolerance(dates, k + 1, streak + 1, subDay(currentDate))
       ELSE streak

\* The for loop of calculateStreak over the fetched completions (dates in
\* descending order), from position k with the running streak and cursor.
RECURSIVE streakLoop(_, _, _, _)
streakLoop(dates, k, streak, currentDate) ==
  IF k > Len(dates) THEN streak
  ELSE LET completionDate == dates[k]
           diffDays == differenceInDays(currentDate, completionDate)
       IN IF diffDays = 0
          THEN streakLoop(dates, k + 1, streak + 1, subDay(currentDate))
          ELSE IF diffDays = 1
          THEN streakLoop(dates, k + 1, streak + 1, subDay(completionDate))
          ELSE streak

\* Mutant of calculateStreak: the records are fetched oldest first
calculateStreak_ascending(dateSet, now) ==
  LET desc == Take(SortDesc(dateSet), Lookback)
      fetched == [k \in 1..Len(desc) |-> desc[Len(desc) + 1 - k]]
  IN IF Len(fetched) = 0 THEN 0 ELSE streakLoop(fetched, 1, 0, now)

\* calculateStreak on the dates of a habit's completed records
calculateStreak(dateSet, now) ==
  LET fetched == Take(SortDesc(dateSet), Lookback)
  IN IF Len(fetched) = 0 THEN 0 ELSE streakLoop(fetched, 1, 0, now)

\* Mutant of shouldUnlock: > in place of >=
shouldUnlock_strict(a, currentStreak, totalCompletions) ==
  CASE Achievement[a].criteriaType = "streak" ->
         currentStreak > Achievement[a].threshold
    [] Achievement[a].criteriaType = "total_completions" ->
         totalCompletions > Achievement[a].threshold
    [] OTHER -> FALSE

\* The switch of checkAchievements on criteriaType
shouldUnlock(a, currentStreak, totalCompletions) ==
  CASE Achievement[a].criteriaType = "streak" ->
         currentStreak >= Achievement[a].threshold
    [] Achievement[a].criteriaType = "total_completions" ->
         totalCompletions >= Achievement[a].threshold
    [] OTHER -> FALSE

\* ---------------------------------------------------- level and rank code

\* RANKS of the gamification router (id and minXP of each entry)
RANKS ==
  <<[id |-> "unranked", minXP |-> 0],
    [id |-> "bronze", minXP |-> 100],
    [id |-> "silver", minXP |-> 300],
    [id |-> "gold", minXP |-> 600],
    [id |-> "platinum", minXP |-> 1000],
    [id |-> "diamond", minXP |-> 1500],
    [id |-> "master", minXP |-> 2200],
    [id |-> "champion", minXP |-> 3000],
    [id |-> "legend", minXP |-> 4000]>>

\* Math.floor(Math.sqrt(num / den)) for num >= 0, den > 0, searched upwards
\* from n: the quotient of two integers and its square root are correctly
\* rounded doubles, which for the XP a 32-bit column holds never reach the
\* next integer from below
RECURSIVE FloorSqrt(_, _, _)
FloorSqrt(num, den, n) ==
  IF den * (n + 1) * (n + 1) > num THEN n ELSE FloorSqrt(num, den, n + 1)

\* The numerators k of the ratios k/200 (the ratios whose percentage ends in
\* .5) at which the double product (a / b) * 100 is below the half: the
\* doubles nearest 0.145, 0.285, 0.565 and 0.575 times 100 are
\* 14.499999999999998, 28.499999999999996, 56.49999999999999 and
\* 57.49999999999999; at the other 96 the product is the half itself
HalvesBelow == {29, 57, 113, 115}

\* Math.round((a / b) * 100) for 0 <= a, 0 < b, in double arithmetic: off a
\* half the product is nearer to the exact value than the exact value is to
\* the half, so it rounds as the exact value does
RoundPercent(a, b) ==
  IF (200 * a) % b = 0 /\ ((200 * a) \div b) \in HalvesBelow
  THEN ((200 * a) \div b - 1) \div 2
  ELSE MathRound(100 * a, b)

\* Mutant of calculateLevel_user: the divisor the doc comment suggests
calculateLevel_user_per100(xp) == FloorSqrt(xp, 100, 0) + 1

\* calculateLevel of the user router
calculateLevel_user(xp) == FloorSqrt(xp, 50, 0) + 1

\* Mutant of calculateLevel: Math.round in place of Math.floor
calculateLevel_round(xp) ==
  LET n == FloorSqrt(xp, 50, 0)
  IN (IF 4 * xp >= 50 * (2 * n + 1) * (2 * n + 1) THEN n + 1 ELSE n) + 1

\* calculateLevel of the gamification router
calculateLevel(xp) == FloorSqrt(xp, 50, 0) + 1

\* The level addXP of the client user store sets after adding to xp
addXP_level(xp) == FloorSqrt(xp, 50, 0) + 1

\* calculateLevelProgress of the user router
calculateLevelProgress_user(xp) ==
  LET level == calculateLevel_user(xp)
      currentLevelXP == 50 * (level - 1) * (level - 1)
      nextLevelXP == 50 * level * level
      xpInCurrentLevel == xp - currentLevelXP
      xpRequiredForNextLevel == nextLevelXP - currentLevelXP
  IN [currentLevelXP |-> currentLevelXP,
      nextLevelXP |-> nextLevelXP,
      progressPercent |->
        Min(100, RoundPercent(xpInCurrentLevel, xpRequiredForNextLevel))]

\* Mutant of calculateLevelProgress: the start of the level is not subtracted
calculateLevelProgress_fromZero(xp) ==
  LET level == calculateLevel(xp)
      currentLevelXP == 50 * (level - 1) * (level - 1)
      nextLevelXP == 50 * level * level
      xpInLevel == xp
      xpForNextLevel == nextLevelXP - currentLevelXP
  IN [level |-> level,
      currentLevelXP |-> currentLevelXP,
      nextLevelXP |-> nextLevelXP,
      xpInLevel |-> xpInLevel,
      xpForNextLevel |-> xpForNextLevel,
      progressPercent |-> Min(100, RoundPercent(xpInLevel, xpForNextLevel))]

\* Mutant of calculateLevelProgress: the percentage of what is left
calculateLevelProgress_remaining(xp) ==
  LET level == calculateLevel(xp)
      currentLevelXP == 50 * (level - 1) * (level - 1)
      nextLevelXP == 50 * level * level
      xpInLevel == xp - currentLevelXP
      xpForNextLevel == nextLevelXP - currentLevelXP
  IN [level |-> level,
      currentLevelXP |-> currentLevelXP,
      nextLevelXP |-> nextLevelXP,
      xpInLevel |-> xpInLevel,
      xpForNextLevel |-> xpForNextLevel,
      progressPercent |->
        Min(100, RoundPercent(xpForNextLevel - xpInLevel, xpForNextLevel))]

\* calculateLevelProgress of the gamification router
calculateLevelProgress(xp) ==
  LET level == calculateLevel(xp)
      currentLevelXP == 50 * (level - 1) * (level - 1)
      nextLevelXP == 50 * level * level
      xpInLevel == xp - currentLevelXP
      xpForNextLevel == nextLevelXP - currentLevelXP
  IN [level |-> level,
      currentLevelXP |-> currentLevelXP,
      nextLevelXP |-> nextLevelXP,
      xpInLevel |-> xpInLevel,
      xpForNextLevel |-> xpForNextLevel,
      progressPercent |-> Min(100, RoundPercent(xpInLevel, xpForNextLevel))]

\* Mutant of getRank: > in place of >=
RECURSIVE getRankFrom_strict(_, _)
getRankFrom_strict(xp, i) ==
  IF i < 1 THEN RANKS[1]
  ELSE IF xp > RANKS[i].minXP THEN RANKS[i]
  ELSE getRankFrom_strict(xp, i - 1)

\* The for loop of getRank from index i downwards (1-based), with the
\* fallback RANKS[0] after it
RECURSIVE getRankFrom(_, _)
getRankFrom(xp, i) ==
  IF i < 1 THEN RANKS[1]
  ELSE IF xp >= RANKS[i].minXP THEN RANKS[i]
  ELSE getRankFrom(xp, i - 1)

getRank(xp) == getRankFrom(xp, Len(RANKS))

\* RANKS.findIndex((r) => r.id === id), 1-based
findIndex(id) == CHOOSE i \in 1..Len(RANKS) : RANKS[i].id = id

\* No next rank: the null getNextRank returns at the last rank
NullRank == [isNull |-> TRUE, id |-> "none", minXP |-> 0, xpRequired |-> 0,
             progress |-> 0]

getNextRank(xp) ==
  LET currentRank == getRank(xp)
      currentIndex == findIndex(currentRank.id)
  IN IF currentIndex = Len(RANKS)
     THEN NullRank
     ELSE LET nextRank == RANKS[currentIndex + 1]
          IN [isNull |-> FALSE, id |-> nextRank.id, minXP |-> nextRank.minXP,
              xpRequired |-> nextRank.minXP - xp,
              progress |-> RoundPercent(xp - currentRank.minXP,
                                        nextRank.minXP - currentRank.minXP)]

\* ------------------------------------------------------------------ state

VARIABLES
  today,             \* startOfDay(new Date()) as a day number
  habits,            \* habit table: id -> row (exists = the row is there)
  completions,       \* habitCompletion table: rows [habitId, date], all of
                     \* them completed = true, unique on (habitId, date)
  user,              \* the requesting user's row: xp, currentStreak, longestStreak
  userAchievements,  \* userAchievement table: achievement id -> number of rows
  activityLog,       \* activityLog table: the (action, day created) pairs in it
  resources,         \* userResource table: resource type -> row of the user
  pc,                \* per request slot: the await the request stands at
  loc,               \* per request slot: the handler's local variables
  calcIn,            \* SpecCalc: the inputs of the pure helpers
  calcOut,           \* SpecCalc: their results
  answered,          \* the last answer a gamification request gave its caller
  pairBefore,        \* SpecPair: the tables as the last on-off pair found them
  client             \* the browser: the habit store, the getAll query and the
                     \* toggle mutations in flight

dbVars == <<today, habits, completions, user, userAchievements, activityLog,
           resources>>

vars == <<today, habits, completions, user, userAchievements, activityLog,
          resources,
          pc, loc, calcIn, calcOut, answered, pairBefore, client>>

NoHabit ==
  [exists |-> FALSE, userId |-> "none", isArchived |-> FALSE,
   difficulty |-> 0, xpReward |-> 0, isPinned |-> FALSE, orderIndex |-> 0]

NoLoc ==
  [habitId |-> "none", date |-> 0, xpReward |-> 0, existing |-> FALSE,
   existingGone |-> FALSE, i |-> 0, currentDate |-> 0, streak |-> 0, longestStreak |-> 0,
   unlockedSet |-> {}, achievements |-> <<>>, currentStreak |-> 0,
   cost |-> [resource |-> "none", amount |-> 0], targetDate |-> 0,
   repairHabits |-> <<>>, goldReward |-> 0, daysAgo |-> 0]

\* The userResource rows syncFromClerk creates for a new user
ResourceTypes == {"GOLD", "ELIXIR", "DARK_MATTER", "GEMS"}

NoResource == [exists |-> FALSE, amount |-> 0]

NewUserResources == [t \in ResourceTypes |-> [exists |-> TRUE, amount |-> 0]]

\* No gamification request has answered yet; `flip' changes with every answer
NoAnswer == [request |-> "none", input |-> 0, outcome |-> "none", flip |-> FALSE]

\* A habit of the client store (the fields toggleCompletion changes);
\* known = the store has the habit
NoStoreHabit == [known |-> FALSE, isCompletedToday |-> FALSE, currentStreak |-> 0]

NoMutation == [stage |-> "none", date |-> 0]

\* The browser before its first query
NoClient ==
  [habit |-> NoStoreHabit,
   query |-> [stage |-> "idle", data |-> NoStoreHabit],
   mutation |-> [p \in Procs |-> NoMutation]]

\* No toggle-on followed by a toggle-off has been requested yet
NoPair == [taken |-> FALSE, completions |-> {}, xp |-> 0,
           rows |-> [a \in AchievementIds |-> 0], added |-> 0]

NoCalc == [difficulty |-> 0, dates |-> {}, xp |-> 0]

\* Nothing computed yet: -1 for a number, and `done' names the helpers that
\* have been applied
NoOut ==
  [xpReward |-> -1, streak |-> -1, done |-> {},
   level |-> -1, levelUser |-> -1, levelStore |-> -1,
   levelProgress |-> calculateLevelProgress(0),
   levelProgressUser |-> calculateLevelProgress_user(0),
   currentRank |-> RANKS[1], nextRank |-> NullRank]

\* The state as one record, for the step operators.  result[p] is what
\* request p answered its caller: "none" while it has not answered, "OK", or
\* the error it threw; it is the caller's to keep, not the server's.
St ==
  [today |-> today, habits |-> habits, completions |-> completions,
   user |-> user, userAchievements |-> userAchievements,
   activityLog |-> activityLog, resources |-> resources, pc |-> pc, loc |-> loc,
   result |-> [p \in Procs |-> "none"]]

Apply(s) ==
  /\ today' = s.today
  /\ habits' = s.habits
  /\ completions' = s.completions
  /\ user' = s.user
  /\ userAchievements' = s.userAchievements
  /\ activityLog' = s.activityLog
  /\ resources' = s.resources
  /\ pc' = s.pc
  /\ loc' = s.loc

\* Request p answers `outcome' and ends: its locals are dropped
Return(s, p, outcome) ==
  [s EXCEPT !.pc[p] = "idle", !.loc[p] = NoLoc, !.result[p] = outcome]

\* The un-awaited run of request p ends
EndRun(s, p) == [s EXCEPT !.pc[p] = "idle", !.loc[p] = NoLoc]

Goto(s, p, label) == [s EXCEPT !.pc[p] = label]


\* ----------------------------------------------------------- table queries

ActiveHabits(s) ==
  {h \in HabitIds : /\ s.habits[h].exists
                    /\ s.habits[h].userId = UserId
                    /\ ~s.habits[h].isArchived}

\* habitCompletion.count({ where: { userId, date, completed: true } })
dayCompletions(s, date) == Cardinality({c \in s.completions : c.date = date})

\* the dates of habitCompletion.findMany({ where: { habitId, userId, completed: true } })
habitDates(s, habitId) == {c.date : c \in {x \in s.completions : x.habitId = habitId}}

AddXP(s, amount) == [s EXCEPT !.user.xp = @ + amount]

Log(s, action) ==
  [s EXCEPT !.activityLog = @ \cup {[action |-> action, day |-> s.today]}]

\* ------------------------------------------- habits.create / update / archive

\* habitsRouter.create with the given difficulty; newId is the id the
\* database gives the row
create(s, p, newId, difficulty) ==
  LET mine == {h \in HabitIds : s.habits[h].exists /\ s.habits[h].userId = UserId}
      orderIndex == IF mine = {} THEN 0
                    ELSE 1 + (CHOOSE n \in {s.habits[h].orderIndex : h \in mine} :
                                \A h \in mine : s.habits[h].orderIndex <= n)
      row == [exists |-> TRUE, userId |-> UserId, isArchived |-> FALSE,
              difficulty |-> difficulty,
              xpReward |-> calculateXPReward(difficulty),
              isPinned |-> FALSE, orderIndex |-> orderIndex]
  IN Return(Log([s EXCEPT !.habits[newId] = row], "habit_created"), p, "OK")

\* habitsRouter.update with data = { difficulty }
update(s, p, id, difficulty) ==
  LET habit == s.habits[id]
  IN IF ~habit.exists \/ habit.userId # UserId
     THEN Return(s, p, "NOT_FOUND")
     ELSE IF difficulty # 0
     THEN Return([s EXCEPT !.habits[id].difficulty = difficulty,
                           !.habits[id].xpReward = calculateXPReward(difficulty)],
                 p, "OK")
     ELSE Return(s, p, "OK")

\* habitsRouter.archive
archive(s, p, id) ==
  LET habit == s.habits[id]
  IN IF ~habit.exists \/ habit.userId # UserId
     THEN Return(s, p, "NOT_FOUND")
     ELSE Return([s EXCEPT !.habits[id].isArchived = TRUE], p, "OK")

\* habitsRouter.restore: habit.update({ where: { id } }) with no lookup first
restore(s, p, id) ==
  IF ~s.habits[id].exists
  THEN Return(s, p, "ERROR")
  ELSE Return([s EXCEPT !.habits[id].isArchived = FALSE], p, "OK")

\* habitsRouter.delete, for a habit no completion record names (what the
\* delete does to such records is the schema's to say)
delete(s, p, id) ==
  LET habit == s.habits[id]
  IN IF ~habit.exists \/ habit.userId # UserId
     THEN Return(s, p, "NOT_FOUND")
     ELSE Return([s EXCEPT !.habits[id] = NoHabit], p, "OK")

\* habitsRouter.reorder: one habit.update({ where: { id } }) per id of the
\* list (no id twice), all of them started before Promise.all is awaited;
\* the update of an id that has no row rejects and the others still run
reorder(s, p, habitIds) ==
  LET Index(id) == CHOOSE k \in 1..Len(habitIds) : habitIds[k] = id
      Named(id) == \E k \in 1..Len(habitIds) : habitIds[k] = id
      s2 == [s EXCEPT !.habits =
               [id \in HabitIds |->
                  IF Named(id) /\ @[id].exists
                  THEN [@[id] EXCEPT !.orderIndex = Index(id) - 1]
                  ELSE @[id]]]
  IN IF \E id \in HabitIds : Named(id) /\ ~s.habits[id].exists
     THEN Return(s2, p, "ERROR")
     ELSE Return(s2, p, "OK")

\* habitsRouter.togglePin
togglePin(s, p, id) ==
  LET habit == s.habits[id]
  IN IF ~habit.exists \/ habit.userId # UserId
     THEN Return(s, p, "NOT_FOUND")
     ELSE Return([s EXCEPT !.habits[id].isPinned = ~habit.isPinned], p, "OK")

\* ------------------------------------------------- habits.toggleCompletion

\* Mutant of toggleCompletion_findHabit: the date is not checked
toggleCompletion_findHabit_anyDate(s, p, habitId, date) ==
  LET habit == s.habits[habitId]
  IN IF ~habit.exists \/ habit.userId # UserId
     THEN Return(s, p, "NOT_FOUND")
     ELSE [s EXCEPT !.pc[p] = "findExisting",
                    !.loc[p] = [NoLoc EXCEPT !.habitId = habitId,
                                             !.date = date,
                                             !.xpReward = habit.xpReward]]

\* The date check and habit.findUnique with the ownership check
toggleCompletion_findHabit(s, p, habitId, date) ==
  IF date > s.today
  THEN Return(s, p, "BAD_REQUEST")
  ELSE LET habit == s.habits[habitId]
       IN IF ~habit.exists \/ habit.userId # UserId
          THEN Return(s, p, "NOT_FOUND")
          ELSE [s EXCEPT !.pc[p] = "findExisting",
                         !.loc[p] = [NoLoc EXCEPT !.habitId = habitId,
                                                  !.date = date,
                                                  !.xpReward = habit.xpReward]]

\* habitCompletion.findUnique({ where: { habitId_date } })
toggleCompletion_findExisting(s, p) ==
  LET existing == [habitId |-> s.loc[p].habitId, date |-> s.loc[p].date]
                    \in s.completions
  IN [s EXCEPT !.loc[p].existing = existing,
               !.pc[p] = IF existing THEN "delete" ELSE "create"]

\* habitCompletion.delete({ where: { id: existing.id } }): throws when the
\* row with that id is gone, also when another row has taken its (habitId,
\* date) since.  Deleting the row makes it gone for every other request that
\* has found it and is about to delete it.
toggleCompletion_delete(s, p) ==
  LET row == [habitId |-> s.loc[p].habitId, date |-> s.loc[p].date]
      Holds(q) == /\ q # p
                  /\ s.pc[q] = "delete"
                  /\ s.loc[q].habitId = row.habitId
                  /\ s.loc[q].date = row.date
  IN IF row \notin s.completions \/ s.loc[p].existingGone
     THEN Return(s, p, "ERROR")
     ELSE [s EXCEPT !.completions = @ \ {row},
                    !.loc = [q \in Procs |->
                               IF Holds(q) THEN [@[q] EXCEPT !.existingGone = TRUE]
                               ELSE @[q]],
                    !.pc[p] = "decrementXP"]

\* Mutant of toggleCompletion_decrementXP: the reward of the default
\* difficulty is deducted
toggleCompletion_decrementXP_default(s, p) ==
  Goto(AddXP(s, -calculateXPReward(DefaultDifficulty)), p, "findHabits")

\* user.update({ data: { xp: { decrement: habit.xpReward } } })
toggleCompletion_decrementXP(s, p) ==
  Goto(AddXP(s, -s.loc[p].xpReward), p, "findHabits")

\* Mutant of toggleCompletion_create: the create succeeds whether or not the
\* (habitId, date) key is taken
toggleCompletion_create_noKey(s, p) ==
  LET row == [habitId |-> s.loc[p].habitId, date |-> s.loc[p].date]
  IN [s EXCEPT !.completions = @ \cup {row}, !.pc[p] = "incrementXP"]

\* habitCompletion.create: throws on the unique (habitId, date) key
toggleCompletion_create(s, p) ==
  LET row == [habitId |-> s.loc[p].habitId, date |-> s.loc[p].date]
  IN IF row \in s.completions /\ HabitCompletionKeyUnique
     THEN Return(s, p, "ERROR")
     ELSE [s EXCEPT !.completions = @ \cup {row}, !.pc[p] = "incrementXP"]

\* user.update({ data: { xp: { increment: habit.xpReward } } })
toggleCompletion_incrementXP(s, p) ==
  Goto(AddXP(s, s.loc[p].xpReward), p, "findHabits")

\* What follows `await updateUserStreak(...)': the toggle-off branch returns,
\* the toggle-on branch goes on to the activity log
afterUpdateUserStreak(s, p) ==
  IF s.loc[p].existing THEN Return(s, p, "OK") ELSE Goto(s, p, "logActivity")

\* updateUserStreak: habit.findMany of the active habits, the early return,
\* and the initialisation of the walk
updateUserStreak_findHabits(s, p) ==
  IF ActiveHabits(s) = {}
  THEN afterUpdateUserStreak(s, p)
  ELSE [s EXCEPT !.loc[p].streak = 0, !.loc[p].i = 0,
                 !.loc[p].currentDate = s.today, !.pc[p] = "countDay"]

\* Mutant of updateUserStreak_countDay: an empty day ends the loop also on
\* the first iteration (no tolerance for today)
updateUserStreak_countDay_noTolerance(s, p) ==
  LET l == s.loc[p]
      n == dayCompletions(s, l.currentDate)
      l2 == IF n > 0
            THEN [l EXCEPT !.streak = @ + 1, !.currentDate = subDay(@), !.i = @ + 1]
            ELSE l
  IN [s EXCEPT !.loc[p] = l2,
               !.pc[p] = IF n = 0 \/ l2.i >= Lookback THEN "readLongest"
                         ELSE "countDay"]

\* updateUserStreak: one iteration of the for loop (one count query)
updateUserStreak_countDay(s, p) ==
  LET l == s.loc[p]
      n == dayCompletions(s, l.currentDate)
      stop == n = 0 /\ l.i > 0
      l2 == IF n > 0
            THEN [l EXCEPT !.streak = @ + 1, !.currentDate = subDay(@), !.i = @ + 1]
            ELSE IF l.i > 0
            THEN l
            ELSE [l EXCEPT !.currentDate = subDay(@), !.i = @ + 1]
  IN [s EXCEPT !.loc[p] = l2,
               !.pc[p] = IF stop \/ l2.i >= Lookback THEN "readLongest"
                         ELSE "countDay"]

\* updateUserStreak: user.findUnique({ select: { longestStreak } })
updateUserStreak_readLongest(s, p) ==
  [s EXCEPT !.loc[p].longestStreak = s.user.longestStreak,
            !.pc[p] = "writeStreak"]

\* Mutant of updateUserStreak_write: longestStreak is overwritten with the
\* computed streak
updateUserStreak_write_noMax(s, p) ==
  afterUpdateUserStreak(
    [s EXCEPT !.user.currentStreak = s.loc[p].streak,
              !.user.longestStreak = s.loc[p].streak],
    p)

\* updateUserStreak: user.update of currentStreak and longestStreak
updateUserStreak_write(s, p) ==
  afterUpdateUserStreak(
    [s EXCEPT !.user.currentStreak = s.loc[p].streak,
              !.user.longestStreak = Max(s.loc[p].streak, s.loc[p].longestStreak)],
    p)

\* activityLog.create('habit_completed'); then checkAchievements is called
\* without await and the response { completed: true } is returned
toggleCompletion_logActivity(s, p) ==
  [Log(s, "habit_completed") EXCEPT !.pc[p] = "readUnlocked",
                                    !.result[p] = "OK"]

\* ------------------------------------------------------- checkAchievements

\* userAchievement.findMany({ where: { userId } })
checkAchievements_readUnlocked(s, p) ==
  [s EXCEPT !.loc[p].unlockedSet = {a \in AchievementIds : s.userAchievements[a] > 0},
            !.pc[p] = "readAchievements"]

\* Mutant of checkAchievements_readAchievements: the notIn filter is dropped
checkAchievements_readAchievements_all(s, p) ==
  [s EXCEPT !.loc[p].achievements = AchievementOrder, !.pc[p] = "readUser"]

\* achievement.findMany({ where: { id: { notIn: unlockedSet } } })
checkAchievements_readAchievements(s, p) ==
  LET NotIn(a) == a \notin s.loc[p].unlockedSet
  IN [s EXCEPT !.loc[p].achievements = SelectSeq(AchievementOrder, NotIn),
               !.pc[p] = "readUser"]

\* user.findUnique({ where: { id: userId } })
checkAchievements_readUser(s, p) ==
  [s EXCEPT !.loc[p].currentStreak = s.user.currentStreak,
            !.pc[p] = "countCompletions"]

\* habitCompletion.count({ where: { userId, completed: true } }), then the for
\* loop up to its first await: the achievements whose shouldUnlock is false
\* are passed over without a database call
checkAchievements_countCompletions(s, p) ==
  LET totalCompletions == Cardinality(s.completions)
      Should(a) == shouldUnlock(a, s.loc[p].currentStreak, totalCompletions)
      toUnlock == SelectSeq(s.loc[p].achievements, Should)
  IN IF toUnlock = <<>>
     THEN EndRun(s, p)
     ELSE [s EXCEPT !.loc[p].achievements = toUnlock, !.pc[p] = "unlock"]

\* userAchievement.create({ data: { userId, achievementId } }): on a unique
\* key the create of a second row throws, which ends the run (the caller's
\* .catch(console.error) takes the rejection)
checkAchievements_unlock(s, p) ==
  LET a == Head(s.loc[p].achievements)
  IN IF UserAchievementKeyUnique /\ s.userAchievements[a] > 0
     THEN EndRun(s, p)
     ELSE [s EXCEPT !.userAchievements[a] = @ + 1, !.pc[p] = "awardXP"]

\* user.update({ data: { xp: { increment: achievement.xpReward } } })
checkAchievements_awardXP(s, p) ==
  Goto(AddXP(s, Achievement[Head(s.loc[p].achievements)].xpReward), p, "logUnlock")

\* activityLog.create('achievement_unlocked'), then the next achievement
checkAchievements_logUnlock(s, p) ==
  LET rest == Tail(s.loc[p].achievements)
      s2 == Log(s, "achievement_unlocked")
  IN IF rest = <<>>
     THEN EndRun(s2, p)
     ELSE [s2 EXCEPT !.loc[p].achievements = rest, !.pc[p] = "unlock"]


\* ------------------------------------------------- gamification router

\* The amount of the addResource requests: the cost of a two-day repair, so
\* that balances below, at and above each cost occur
TopUp == RESOURCE_COSTS.STREAK_REPAIR_2.amount

\* userResource.upsert: increment the row's amount, or create the row with it
UpsertResource(s, resourceType, amount) ==
  [s EXCEPT !.resources[resourceType] =
     IF @.exists THEN [@ EXCEPT !.amount = @ + amount]
     ELSE [exists |-> TRUE, amount |-> amount]]

\* gamificationRouter.addResource
addResource(s, p, resourceType, amount) ==
  Return(UpsertResource(s, resourceType, amount), p, "OK")

\* The cost repairStreak picks for daysAgo
repairCost(daysAgo) ==
  IF daysAgo = 1 THEN RESOURCE_COSTS.STREAK_REPAIR_1
  ELSE IF daysAgo <= 3 THEN RESOURCE_COSTS.STREAK_REPAIR_2
  ELSE RESOURCE_COSTS.STREAK_REPAIR_3

\* repairStreak: the cost, userResource.findUnique and the balance check
repairStreak_findResource(s, p, daysAgo) ==
  LET cost == repairCost(daysAgo)
      resource == s.resources[cost.resource]
  IN IF ~resource.exists \/ resource.amount < cost.amount
     THEN Return(s, p, "BAD_REQUEST")
     ELSE [s EXCEPT !.pc[p] = "repairDeduct",
                    !.loc[p] = [NoLoc EXCEPT !.cost = cost, !.daysAgo = daysAgo]]

\* Mutant of repairStreak_deduct: the cost in GOLD whatever the resource
repairStreak_deduct_gold(s, p) ==
  [s EXCEPT !.resources["GOLD"].amount = @ - s.loc[p].cost.amount,
            !.loc[p].targetDate = s.today - s.loc[p].daysAgo,
            !.pc[p] = "repairFindHabits"]

\* repairStreak: userResource.update({ amount: { decrement: cost.amount } }),
\* then the target date
repairStreak_deduct(s, p) ==
  [s EXCEPT !.resources[s.loc[p].cost.resource].amount = @ - s.loc[p].cost.amount,
            !.loc[p].targetDate = s.today - s.loc[p].daysAgo,
            !.pc[p] = "repairFindHabits"]

\* repairStreak: habit.findMany of the user's active habits
repairStreak_findHabits(s, p) ==
  LET Active(h) == h \in ActiveHabits(s)
      found == SelectSeq(HabitOrder, Active)
  IN [s EXCEPT !.loc[p].repairHabits = found,
               !.pc[p] = IF found = <<>> THEN "repairLog" ELSE "repairUpsert"]

\* repairStreak: habitCompletion.upsert for the next habit of the list
repairStreak_upsert(s, p) ==
  LET habitId == Head(s.loc[p].repairHabits)
      rest == Tail(s.loc[p].repairHabits)
      row == [habitId |-> habitId, date |-> s.loc[p].targetDate]
  IN [s EXCEPT !.completions = @ \cup {row},
               !.loc[p].repairHabits = rest,
               !.pc[p] = IF rest = <<>> THEN "repairLog" ELSE "repairUpsert"]

\* repairStreak: activityLog.create('streak_repaired') and the answer
repairStreak_log(s, p) == Return(Log(s, "streak_repaired"), p, "OK")

\* claimDailyBonus: activityLog.findFirst of a claim created since midnight
claimDailyBonus_findClaim(s, p) ==
  IF \E e \in s.activityLog : e.action = "daily_bonus_claimed" /\ e.day >= s.today
  THEN Return(s, p, "BAD_REQUEST")
  ELSE [s EXCEPT !.pc[p] = "bonusReadUser", !.loc[p] = NoLoc]

\* Mutant of claimDailyBonus_readUser: the multiplier is not capped at 5
claimDailyBonus_readUser_noCap(s, p) ==
  LET streakMultiplier == (s.user.currentStreak \div 7) + 1
  IN [s EXCEPT !.loc[p].goldReward = 10 * streakMultiplier,
               !.loc[p].xpReward = 5 * streakMultiplier,
               !.pc[p] = "bonusGold"]

\* claimDailyBonus: user.findUnique and the rewards
claimDailyBonus_readUser(s, p) ==
  LET streakMultiplier == Min((s.user.currentStreak \div 7) + 1, 5)
  IN [s EXCEPT !.loc[p].goldReward = 10 * streakMultiplier,
               !.loc[p].xpReward = 5 * streakMultiplier,
               !.pc[p] = "bonusGold"]

\* claimDailyBonus: userResource.upsert of GOLD
claimDailyBonus_upsertGold(s, p) ==
  Goto(UpsertResource(s, "GOLD", s.loc[p].goldReward), p, "bonusXP")

\* claimDailyBonus: user.update({ xp: { increment: xpReward } })
claimDailyBonus_awardXP(s, p) ==
  Goto(AddXP(s, s.loc[p].xpReward), p, "bonusLog")

\* claimDailyBonus: activityLog.create('daily_bonus_claimed') and the answer
claimDailyBonus_log(s, p) == Return(Log(s, "daily_bonus_claimed"), p, "OK")

\* ------------------------------------------------------ running the steps

\* The step a request takes from the await it stands at
StepOf(s, p) ==
  CASE s.pc[p] = "findExisting" -> toggleCompletion_findExisting(s, p)
    [] s.pc[p] = "delete" -> toggleCompletion_delete(s, p)
    [] s.pc[p] = "decrementXP" -> toggleCompletion_decrementXP(s, p)
    [] s.pc[p] = "create" -> toggleCompletion_create(s, p)
    [] s.pc[p] = "incrementXP" -> toggleCompletion_incrementXP(s, p)
    [] s.pc[p] = "findHabits" -> updateUserStreak_findHabits(s, p)
    [] s.pc[p] = "countDay" -> updateUserStreak_countDay(s, p)
    [] s.pc[p] = "readLongest" -> updateUserStreak_readLongest(s, p)
    [] s.pc[p] = "writeStreak" -> updateUserStreak_write(s, p)
    [] s.pc[p] = "logActivity" -> toggleCompletion_logActivity(s, p)
    [] s.pc[p] = "readUnlocked" -> checkAchievements_readUnlocked(s, p)
    [] s.pc[p] = "readAchievements" -> checkAchievements_readAchievements(s, p)
    [] s.pc[p] = "readUser" -> checkAchievements_readUser(s, p)
    [] s.pc[p] = "countCompletions" -> checkAchievements_countCompletions(s, p)
    [] s.pc[p] = "unlock" -> checkAchievements_unlock(s, p)
    [] s.pc[p] = "awardXP" -> checkAchievements_awardXP(s, p)
    [] s.pc[p] = "logUnlock" -> checkAchievements_logUnlock(s, p)
    [] s.pc[p] = "repairDeduct" -> repairStreak_deduct(s, p)
    [] s.pc[p] = "repairFindHabits" -> repairStreak_findHabits(s, p)
    [] s.pc[p] = "repairUpsert" -> repairStreak_upsert(s, p)
    [] s.pc[p] = "repairLog" -> repairStreak_log(s, p)
    [] s.pc[p] = "bonusReadUser" -> claimDailyBonus_readUser(s, p)
    [] s.pc[p] = "bonusGold" -> claimDailyBonus_upsertGold(s, p)
    [] s.pc[p] = "bonusXP" -> claimDailyBonus_awardXP(s, p)
    [] s.pc[p] = "bonusLog" -> claimDailyBonus_log(s, p)

\* The steps of request p with no other request in between, until it stands
\* at one of the labels in `stops'
RECURSIVE RunUntil(_, _, _)
RunUntil(s, p, stops) ==
  IF s.pc[p] \in stops THEN s ELSE RunUntil(StepOf(s, p), p, stops)

AllIdle == \A p \in Procs : pc[p] = "idle"

\* The labels of the un-awaited checkAchievements run
PassLabels ==
  {"readUnlocked", "readAchievements", "readUser", "countCompletions",
   "unlock", "awardXP", "logUnlock"}

\* ------------------------------------------------------------------- Init

Init ==
  /\ today = MaxDay - 1
  /\ habits = [h \in HabitIds |-> NoHabit]
  /\ completions = {}
  /\ user = [xp |-> 0, currentStreak |-> 0, longestStreak |-> 0]
  /\ userAchievements = [a \in AchievementIds |-> 0]
  /\ activityLog = {}
  /\ resources = NewUserResources
  /\ pc = [p \in Procs |-> "idle"]
  /\ loc = [p \in Procs |-> NoLoc]
  /\ calcIn = NoCalc
  /\ calcOut = NoOut
  /\ answered = NoAnswer
  /\ pairBefore = NoPair
  /\ client = NoClient

\* ----------------------------------- sequential actions (one request at a time)

Create(difficulty) ==
  /\ AllIdle
  /\ \E k \in 1..Len(HabitOrder) :
       /\ ~habits[HabitOrder[k]].exists
       /\ \A j \in 1..(k - 1) : habits[HabitOrder[j]].exists
       /\ Apply(create(St, 1, HabitOrder[k], difficulty))
  /\ UNCHANGED <<calcIn, calcOut, answered, pairBefore, client>>

Update(id, difficulty) ==
  /\ AllIdle
  /\ Apply(update(St, 1, id, difficulty))
  /\ UNCHANGED <<calcIn, calcOut, answered, pairBefore, client>>

Archive(id) ==
  /\ AllIdle
  /\ Apply(archive(St, 1, id))
  /\ UNCHANGED <<calcIn, calcOut, answered, pairBefore, client>>

Restore(id) ==
  /\ AllIdle
  /\ Apply(restore(St, 1, id))
  /\ UNCHANGED <<calcIn, calcOut, answered, pairBefore, client>>

\* A toggleCompletion request from its first line to its return
ToggleCompletion(habitId, date) ==
  /\ AllIdle
  /\ Apply(RunUntil(toggleCompletion_findHabit(St, 1, habitId, date), 1,
                    {"idle", "readUnlocked"}))
  /\ UNCHANGED <<calcIn, calcOut, answered, pairBefore, client>>

\* The checkAchievements run a toggle-on started, to its end
CheckAchievements ==
  /\ pc[1] = "readUnlocked"
  /\ Apply(RunUntil(StepOf(St, 1), 1, {"idle"}))
  /\ UNCHANGED <<calcIn, calcOut, answered, pairBefore, client>>

Next ==
  \/ Create(DefaultDifficulty)
  \/ \E h \in HabitIds : Archive(h)
  \/ \E h \in HabitIds : Restore(h)
  \/ \E h \in HabitIds, d \in Days : ToggleCompletion(h, d)
  \/ CheckAchievements

Spec == Init /\ [][Next]_vars


\* ------------------------------- sequential requests with difficulty changes

\* The habit and the days the XP specification toggles
NextXP ==
  \/ \E d \in Difficulties : Create(d) /\ ~habits[HabitOrder[1]].exists
  \/ \E d \in Difficulties : Update(HabitOrder[1], d)
  \/ /\ ToggleCompletion(HabitOrder[1], today)
     /\ user'.xp \in -MaxXP..MaxXP
  \/ CheckAchievements

SpecXP == Init /\ [][NextXP]_vars

\* ------------------------- sequential requests that name another user's habit

Delete(id) ==
  /\ AllIdle
  /\ \A c \in completions : c.habitId # id
  /\ Apply(delete(St, 1, id))
  /\ UNCHANGED <<calcIn, calcOut, answered, pairBefore, client>>

Reorder(habitIds) ==
  /\ AllIdle
  /\ Apply(reorder(St, 1, habitIds))
  /\ UNCHANGED <<calcIn, calcOut, answered, pairBefore, client>>

TogglePin(id) ==
  /\ AllIdle
  /\ Apply(togglePin(St, 1, id))
  /\ UNCHANGED <<calcIn, calcOut, answered, pairBefore, client>>

\* The lists of habit ids a reorder request sends: no id twice
ReorderLists ==
  {<<HabitOrder[1]>>, <<HabitOrder[2]>>,
   <<HabitOrder[1], HabitOrder[2]>>, <<HabitOrder[2], HabitOrder[1]>>}

\* The first habit is the requesting user's, the second one is another
\* user's, archived or not, pinned or not
InitOwner ==
  /\ today = MaxDay - 1
  /\ \E archived \in BOOLEAN, pinned \in BOOLEAN :
       habits =
         [h \in HabitIds |->
            [exists |-> TRUE,
             userId |-> IF h = HabitOrder[1] THEN UserId ELSE OtherUserId,
             isArchived |-> IF h = HabitOrder[1] THEN FALSE ELSE archived,
             difficulty |-> DefaultDifficulty,
             xpReward |-> calculateXPReward(DefaultDifficulty),
             isPinned |-> IF h = HabitOrder[1] THEN FALSE ELSE pinned,
             orderIndex |-> 0]]
  /\ completions = {}
  /\ user = [xp |-> 0, currentStreak |-> 0, longestStreak |-> 0]
  /\ userAchievements = [a \in AchievementIds |-> 0]
  /\ activityLog = {}
  /\ resources = NewUserResources
  /\ pc = [p \in Procs |-> "idle"]
  /\ loc = [p \in Procs |-> NoLoc]
  /\ calcIn = NoCalc
  /\ calcOut = NoOut
  /\ answered = NoAnswer
  /\ pairBefore = NoPair
  /\ client = NoClient

NextOwner ==
  \/ \E h \in HabitIds, d \in Difficulties : Update(h, d)
  \/ \E h \in HabitIds : Archive(h)
  \/ \E h \in HabitIds : Restore(h)
  \/ \E h \in HabitIds : Delete(h)
  \/ \E l \in ReorderLists : Reorder(l)
  \/ \E h \in HabitIds : TogglePin(h)
  \/ \E h \in HabitIds : ToggleCompletion(h, today) /\ user'.xp \in -MaxXP..MaxXP
  \/ CheckAchievements

SpecOwner == InitOwner /\ [][NextOwner]_vars

\* ------------------- sequential requests whose achievement passes are deferred

\* A toggleCompletion request in slot p, from its first line to its return;
\* the checkAchievements run it started stays pending in the slot
ToggleCompletionIn(p, habitId, date) ==
  /\ pc[p] = "idle"
  /\ Apply(RunUntil(toggleCompletion_findHabit(St, p, habitId, date), p,
                    {"idle", "readUnlocked"}))
  /\ UNCHANGED <<calcIn, calcOut, answered, pairBefore, client>>

\* The pending checkAchievements run of slot p, from its first query to its
\* end with no other request or run in between
CheckAchievementsIn(p) ==
  /\ pc[p] = "readUnlocked"
  /\ Apply(RunUntil(StepOf(St, p), p, {"idle"}))
  /\ UNCHANGED <<calcIn, calcOut, answered, pairBefore, client>>

NextPass ==
  \/ Create(DefaultDifficulty) /\ ~habits[HabitOrder[1]].exists
  \/ \E p \in Procs, d \in Days : ToggleCompletionIn(p, HabitOrder[1], d)
  \/ \E p \in Procs : CheckAchievementsIn(p)

SpecPass == Init /\ [][NextPass]_vars

\* ------------------------------------------- the daily bonus, sequentially

\* What the caller of `request' with `input' sees when the run s of slot p
\* has returned
Answer(s, p, request, input) ==
  [request |-> request, input |-> input, outcome |-> s.result[p],
   flip |-> ~answered.flip]

\* A claimDailyBonus request from its first line to its return
ClaimDailyBonus ==
  /\ AllIdle
  /\ LET s == RunUntil(claimDailyBonus_findClaim(St, 1), 1, {"idle"})
     IN /\ Apply(s)
        /\ answered' = Answer(s, 1, "claimDailyBonus", 0)
  /\ UNCHANGED <<calcIn, calcOut, pairBefore, client>>

\* Midnight passes on the server
NextDay ==
  /\ AllIdle
  /\ today < MaxStreak + MaxBonusDays
  /\ today' = today + 1
  /\ UNCHANGED <<habits, completions, user, userAchievements, activityLog,
                 resources, pc, loc, calcIn, calcOut, answered, pairBefore, client>>

\* A user whose one habit was completed on each of the last n days, today
\* included, with the streak toggleCompletion stored for that
InitBonus ==
  /\ today = MaxStreak
  /\ habits = [h \in HabitIds |->
                 IF h = HabitOrder[1]
                 THEN [NoHabit EXCEPT !.exists = TRUE, !.userId = UserId,
                                      !.difficulty = DefaultDifficulty,
                                      !.xpReward = calculateXPReward(DefaultDifficulty)]
                 ELSE NoHabit]
  /\ \E n \in 0..MaxStreak :
       /\ completions = {[habitId |-> HabitOrder[1], date |-> d] :
                           d \in (today - n + 1)..today}
       /\ user = [xp |-> n * calculateXPReward(DefaultDifficulty),
                  currentStreak |-> n, longestStreak |-> n]
  /\ userAchievements = [a \in AchievementIds |-> 0]
  /\ activityLog = {}
  /\ resources = NewUserResources
  /\ pc = [p \in Procs |-> "idle"]
  /\ loc = [p \in Procs |-> NoLoc]
  /\ calcIn = NoCalc
  /\ calcOut = NoOut
  /\ answered = NoAnswer
  /\ pairBefore = NoPair
  /\ client = NoClient

NextBonus == ClaimDailyBonus \/ NextDay

SpecBonus == InitBonus /\ [][NextBonus]_vars

\* ------------------------------------- resources and repairs, sequentially

\* An addResource request; the balance stays within MaxBalance
AddResource(resourceType, amount) ==
  /\ AllIdle
  /\ resources[resourceType].amount + amount <= MaxBalance
  /\ LET s == addResource(St, 1, resourceType, amount)
     IN /\ Apply(s)
        /\ answered' = Answer(s, 1, "addResource", amount)
  /\ UNCHANGED <<calcIn, calcOut, pairBefore, client>>

\* A repairStreak request from its first line to its return
RepairStreak(daysAgo) ==
  /\ AllIdle
  /\ LET s == RunUntil(repairStreak_findResource(St, 1, daysAgo), 1, {"idle"})
     IN /\ Apply(s)
        /\ answered' = Answer(s, 1, "repairStreak", daysAgo)
  /\ UNCHANGED <<calcIn, calcOut, pairBefore, client>>

\* Toggles of one habit and repairs of yesterday, paid in GOLD
NextStreak ==
  \/ Create(DefaultDifficulty) /\ ~habits[HabitOrder[1]].exists
  \/ Archive(HabitOrder[1])
  \/ Restore(HabitOrder[1])
  \/ \E d \in Days : /\ ToggleCompletion(HabitOrder[1], d)
                      /\ user'.xp \in -MaxXP..MaxXP
  \/ CheckAchievements
  \/ AddResource(RESOURCE_COSTS.STREAK_REPAIR_1.resource,
                 RESOURCE_COSTS.STREAK_REPAIR_1.amount)
  \/ RepairStreak(1)

SpecStreak == Init /\ [][NextStreak]_vars

\* --------------------------------------------- repairs of the last week

\* A user with one active habit and possibly a second one, active or
\* archived, whose resource rows are there or not yet created
InitRepair ==
  /\ today = MaxDaysAgo
  /\ \E second \in {"none", "active", "archived"} :
       habits = [h \in HabitIds |->
                   IF h = HabitOrder[1] \/ second # "none"
                   THEN [NoHabit EXCEPT
                           !.exists = TRUE, !.userId = UserId,
                           !.isArchived = (h # HabitOrder[1] /\ second = "archived"),
                           !.difficulty = DefaultDifficulty,
                           !.xpReward = calculateXPReward(DefaultDifficulty)]
                   ELSE NoHabit]
  /\ completions = {}
  /\ user = [xp |-> 0, currentStreak |-> 0, longestStreak |-> 0]
  /\ userAchievements = [a \in AchievementIds |-> 0]
  /\ activityLog = {}
  /\ resources \in {NewUserResources, [t \in ResourceTypes |-> NoResource]}
  /\ pc = [p \in Procs |-> "idle"]
  /\ loc = [p \in Procs |-> NoLoc]
  /\ calcIn = NoCalc
  /\ calcOut = NoOut
  /\ answered = NoAnswer
  /\ pairBefore = NoPair
  /\ client = NoClient

\* The resources a repair is paid in
CostResources ==
  {RESOURCE_COSTS.STREAK_REPAIR_1.resource, RESOURCE_COSTS.STREAK_REPAIR_2.resource,
   RESOURCE_COSTS.STREAK_REPAIR_3.resource}

NextRepair ==
  \/ \E t \in CostResources : AddResource(t, TopUp)
  \/ \E daysAgo \in 1..MaxDaysAgo :
       /\ Cardinality({c.date : c \in completions}) < MaxRepairs
       /\ RepairStreak(daysAgo)

SpecRepair == InitRepair /\ [][NextRepair]_vars

\* --------------------------------------------------- the client store

\* Mutant of store_toggleCompletion: the streak is left as it is
store_toggleCompletion_flagOnly(habit) ==
  IF ~habit.known THEN habit
  ELSE [habit EXCEPT !.isCompletedToday = ~@]

\* useHabitStore.toggleCompletion on the habit with the given id, if the
\* store has it
store_toggleCompletion(habit) ==
  IF ~habit.known THEN habit
  ELSE LET isCompletedToday == ~habit.isCompletedToday
       IN [habit EXCEPT
             !.isCompletedToday = isCompletedToday,
             !.currentStreak = IF isCompletedToday THEN @ + 1 ELSE Max(0, @ - 1)]

\* habits.getAll: habit.findMany with today's completion included
getAll_findHabits(s) ==
  IF HabitOrder[1] \in ActiveHabits(s)
  THEN [known |-> TRUE,
        isCompletedToday |->
          [habitId |-> HabitOrder[1], date |-> s.today] \in s.completions,
        currentStreak |-> 0]
  ELSE NoStoreHabit

\* habits.getAll: calculateStreak for the habit found
getAll_calculateStreak(s, found) ==
  IF ~found.known THEN found
  ELSE [found EXCEPT
          !.currentStreak = calculateStreak(habitDates(s, HabitOrder[1]), s.today)]

\* The query starts (mount, window focus or invalidation): the server runs
\* the findMany of getAll
QueryFind ==
  /\ client.query.stage = "idle"
  /\ client' = [client EXCEPT !.query = [stage |-> "streak",
                                         data |-> getAll_findHabits(St)]]
  /\ UNCHANGED <<dbVars, pc, loc, calcIn, calcOut, answered, pairBefore>>

\* The server computes the streak and the response reaches the browser
QueryStreak ==
  /\ client.query.stage = "streak"
  /\ client' = [client EXCEPT
                  !.query = [stage |-> "data",
                             data |-> getAll_calculateStreak(St, client.query.data)]]
  /\ UNCHANGED <<dbVars, pc, loc, calcIn, calcOut, answered, pairBefore>>

\* useHabits' effect on new data: setHabits(data)
SetHabits ==
  /\ client.query.stage = "data"
  /\ client' = [client EXCEPT !.habit = client.query.data,
                              !.query = [stage |-> "idle", data |-> NoStoreHabit]]
  /\ UNCHANGED <<dbVars, pc, loc, calcIn, calcOut, answered, pairBefore>>

\* toggleMutation.mutate({ habitId, date }): onMutate's optimistic update,
\* and the request is on its way
Mutate(p, date) ==
  /\ client.mutation[p].stage = "none"
  /\ client.habit.known
  /\ client' = [client EXCEPT !.habit = store_toggleCompletion(@),
                              !.mutation[p] = [stage |-> "pending", date |-> date]]
  /\ UNCHANGED <<dbVars, pc, loc, calcIn, calcOut, answered, pairBefore>>

\* The server handles the request of mutation p, its pass included, and
\* answers
Serve(p) ==
  /\ client.mutation[p].stage = "pending"
  /\ AllIdle
  /\ LET s == RunUntil(toggleCompletion_findHabit(St, p, HabitOrder[1],
                                                  client.mutation[p].date),
                       p, {"idle"})
     IN /\ Apply(s)
        /\ client' = [client EXCEPT
                        !.mutation[p].stage =
                          IF s.result[p] = "OK" THEN "success" ELSE "error"]
  /\ UNCHANGED <<calcIn, calcOut, answered, pairBefore>>

\* onSuccess: getAll is invalidated (the query may start again at any time)
OnSuccess(p) ==
  /\ client.mutation[p].stage = "success"
  /\ client' = [client EXCEPT !.mutation[p] = NoMutation]
  /\ UNCHANGED <<dbVars, pc, loc, calcIn, calcOut, answered, pairBefore>>

\* onError: the optimistic update is reverted by a second toggleCompletion
OnError(p) ==
  /\ client.mutation[p].stage = "error"
  /\ client' = [client EXCEPT !.habit = store_toggleCompletion(@),
                              !.mutation[p] = NoMutation]
  /\ UNCHANGED <<dbVars, pc, loc, calcIn, calcOut, answered, pairBefore>>

NextClient ==
  \/ Create(DefaultDifficulty) /\ ~habits[HabitOrder[1]].exists
  \/ QueryFind
  \/ QueryStreak
  \/ SetHabits
  \/ \E p \in Procs, d \in {today, today + 1} : Mutate(p, d)
  \/ \E p \in Procs : Serve(p)
  \/ \E p \in Procs : OnSuccess(p)
  \/ \E p \in Procs : OnError(p)

SpecClient == Init /\ [][NextClient]_vars

\* ------------------------------- interleaved gamification requests (steps)

RepairLabels == {"repairDeduct", "repairFindHabits", "repairUpsert", "repairLog"}

BonusLabels == {"bonusReadUser", "bonusGold", "bonusXP", "bonusLog"}

\* An addResource request in slot p: its one upsert
AddResourceIn(p, resourceType, amount) ==
  /\ pc[p] = "idle"
  /\ resources[resourceType].amount + amount <= MaxBalance
  /\ Apply(addResource(St, p, resourceType, amount))
  /\ UNCHANGED <<calcIn, calcOut, answered, pairBefore, client>>

\* The first query and the balance check of a repairStreak request in slot p
StartRepair(p, daysAgo) ==
  /\ pc[p] = "idle"
  /\ Apply(repairStreak_findResource(St, p, daysAgo))
  /\ UNCHANGED <<calcIn, calcOut, answered, pairBefore, client>>

\* The next await of the repairStreak request in slot p
RepairStep(p) ==
  /\ pc[p] \in RepairLabels
  /\ Apply(StepOf(St, p))
  /\ UNCHANGED <<calcIn, calcOut, answered, pairBefore, client>>

\* The first query of a claimDailyBonus request in slot p
StartClaim(p) ==
  /\ pc[p] = "idle"
  /\ Apply(claimDailyBonus_findClaim(St, p))
  /\ UNCHANGED <<calcIn, calcOut, answered, pairBefore, client>>

\* The next await of the claimDailyBonus request in slot p
ClaimStep(p) ==
  /\ pc[p] \in BonusLabels
  /\ Apply(StepOf(St, p))
  /\ UNCHANGED <<calcIn, calcOut, answered, pairBefore, client>>

NextRes ==
  \/ Create(DefaultDifficulty) /\ ~habits[HabitOrder[1]].exists
  \/ \E p \in Procs, t \in CostResources : AddResourceIn(p, t, TopUp)
  \/ \E p \in Procs, daysAgo \in 1..today : StartRepair(p, daysAgo)
  \/ \E p \in Procs : RepairStep(p)
  \/ \E p \in Procs : StartClaim(p)
  \/ \E p \in Procs : ClaimStep(p)

SpecRes == Init /\ [][NextRes]_vars

\* ------------------- a toggle-on followed at once by a toggle-off (steps)

\* A toggleCompletion request for a day other than today, to its return; its
\* pass stays pending
SoloToggle(date) ==
  /\ AllIdle
  /\ Apply(RunUntil(toggleCompletion_findHabit(St, 1, HabitOrder[1], date), 1,
                    {"idle", "readUnlocked"}))
  /\ user'.xp \in -MaxXP..MaxXP
  /\ pairBefore' = NoPair
  /\ UNCHANGED <<calcIn, calcOut, answered, client>>

\* A toggleCompletion request that finds no record and creates one, to its
\* return, followed by the first line of a second one for the same habit
\* and day; the pass of the first is pending in slot 1
PairOn(date) ==
  /\ AllIdle
  /\ [habitId |-> HabitOrder[1], date |-> date] \notin completions
  /\ LET on == RunUntil(toggleCompletion_findHabit(St, 1, HabitOrder[1], date), 1,
                        {"idle", "readUnlocked"})
     IN /\ on.pc[1] = "readUnlocked"
        /\ Apply(toggleCompletion_findHabit(on, 2, HabitOrder[1], date))
        /\ pairBefore' = [taken |-> TRUE, completions |-> completions,
                          xp |-> user.xp, rows |-> userAchievements,
                          added |-> on.user.xp - user.xp]
  /\ UNCHANGED <<calcIn, calcOut, answered, client>>

\* One await of the pending pass
PairPassStep ==
  /\ pc[1] \in PassLabels
  /\ Apply(StepOf(St, 1))
  /\ UNCHANGED <<calcIn, calcOut, answered, pairBefore, client>>

\* One await of the second request
PairOffStep ==
  /\ pc[2] # "idle"
  /\ Apply(StepOf(St, 2))
  /\ UNCHANGED <<calcIn, calcOut, answered, pairBefore, client>>

NextPair ==
  \/ \E d \in Difficulties : Create(d) /\ ~habits[HabitOrder[1]].exists
  \/ \E d \in Difficulties : Update(HabitOrder[1], d)
  \/ SoloToggle(today - 1)
  \/ PairOn(today)
  \/ PairPassStep
  \/ PairOffStep

SpecPair == Init /\ [][NextPair]_vars

\* ------------------------------------------- interleaved requests (steps)

StartToggle(p, habitId, date) ==
  /\ pc[p] = "idle"
  /\ Apply(toggleCompletion_findHabit(St, p, habitId, date))
  /\ UNCHANGED <<calcIn, calcOut, answered, pairBefore, client>>

FindExisting(p) ==
  /\ pc[p] = "findExisting"
  /\ Apply(toggleCompletion_findExisting(St, p))
  /\ UNCHANGED <<calcIn, calcOut, answered, pairBefore, client>>

DeleteCompletion(p) ==
  /\ pc[p] = "delete"
  /\ Apply(toggleCompletion_delete(St, p))
  /\ UNCHANGED <<calcIn, calcOut, answered, pairBefore, client>>

DecrementXP(p) ==
  /\ pc[p] = "decrementXP"
  /\ Apply(toggleCompletion_decrementXP(St, p))
  /\ UNCHANGED <<calcIn, calcOut, answered, pairBefore, client>>

CreateCompletion(p) ==
  /\ pc[p] = "create"
  /\ Apply(toggleCompletion_create(St, p))
  /\ UNCHANGED <<calcIn, calcOut, answered, pairBefore, client>>

IncrementXP(p) ==
  /\ pc[p] = "incrementXP"
  /\ Apply(toggleCompletion_incrementXP(St, p))
  /\ UNCHANGED <<calcIn, calcOut, answered, pairBefore, client>>

StreakFindHabits(p) ==
  /\ pc[p] = "findHabits"
  /\ Apply(updateUserStreak_findHabits(St, p))
  /\ UNCHANGED <<calcIn, calcOut, answered, pairBefore, client>>

StreakCountDay(p) ==
  /\ pc[p] = "countDay"
  /\ Apply(updateUserStreak_countDay(St, p))
  /\ UNCHANGED <<calcIn, calcOut, answered, pairBefore, client>>

StreakReadLongest(p) ==
  /\ pc[p] = "readLongest"
  /\ Apply(updateUserStreak_readLongest(St, p))
  /\ UNCHANGED <<calcIn, calcOut, answered, pairBefore, client>>

StreakWrite(p) ==
  /\ pc[p] = "writeStreak"
  /\ Apply(updateUserStreak_write(St, p))
  /\ UNCHANGED <<calcIn, calcOut, answered, pairBefore, client>>

LogActivity(p) ==
  /\ pc[p] = "logActivity"
  /\ Apply(toggleCompletion_logActivity(St, p))
  /\ UNCHANGED <<calcIn, calcOut, answered, pairBefore, client>>

\* The un-awaited checkAchievements run, one database call at a time
AchievementStep(p) ==
  /\ pc[p] \in PassLabels
  /\ Apply(StepOf(St, p))
  /\ UNCHANGED <<calcIn, calcOut, answered, pairBefore, client>>

NextConc ==
  \/ Create(DefaultDifficulty) /\ ~habits[HabitOrder[1]].exists
  \/ \E p \in Procs, d \in (today - 1)..today : StartToggle(p, HabitOrder[1], d)
  \/ \E p \in Procs : FindExisting(p)
  \/ \E p \in Procs : DeleteCompletion(p)
  \/ \E p \in Procs : DecrementXP(p)
  \/ \E p \in Procs : CreateCompletion(p)
  \/ \E p \in Procs : IncrementXP(p)
  \/ \E p \in Procs : StreakFindHabits(p)
  \/ \E p \in Procs : StreakCountDay(p)
  \/ \E p \in Procs : StreakReadLongest(p)
  \/ \E p \in Procs : StreakWrite(p)
  \/ \E p \in Procs : LogActivity(p)
  \/ \E p \in Procs : AchievementStep(p)

SpecConc == Init /\ [][NextConc]_vars

\* ------------------------------------------ the pure helpers on drawn inputs

InitCalc ==
  /\ today \in Days
  /\ habits = [h \in HabitIds |-> NoHabit]
  /\ completions = {}
  /\ user = [xp |-> 0, currentStreak |-> 0, longestStreak |-> 0]
  /\ userAchievements = [a \in AchievementIds |-> 0]
  /\ activityLog = {}
  /\ resources = NewUserResources
  /\ pc = [p \in Procs |-> "idle"]
  /\ loc = [p \in Procs |-> NoLoc]
  /\ calcIn \in [difficulty : Difficulties, dates : SUBSET (0..today), xp : {0}]
  /\ calcOut = NoOut
  /\ answered = NoAnswer
  /\ pairBefore = NoPair
  /\ client = NoClient

CalcXPReward ==
  /\ calcOut.xpReward = -1
  /\ calcOut' = [calcOut EXCEPT !.xpReward = calculateXPReward(calcIn.difficulty)]
  /\ UNCHANGED <<dbVars, pc, loc, calcIn, answered, pairBefore, client>>

CalcStreak ==
  /\ calcOut.streak = -1
  /\ calcOut' = [calcOut EXCEPT !.streak = calculateStreak(calcIn.dates, today)]
  /\ UNCHANGED <<dbVars, pc, loc, calcIn, answered, pairBefore, client>>

NextCalc == CalcXPReward \/ CalcStreak

SpecCalc == InitCalc /\ [][NextCalc]_vars


\* --------------------------------- the level and rank helpers on drawn XP

InitLevel ==
  /\ today = MaxDay - 1
  /\ habits = [h \in HabitIds |-> NoHabit]
  /\ completions = {}
  /\ user = [xp |-> 0, currentStreak |-> 0, longestStreak |-> 0]
  /\ userAchievements = [a \in AchievementIds |-> 0]
  /\ activityLog = {}
  /\ resources = NewUserResources
  /\ pc = [p \in Procs |-> "idle"]
  /\ loc = [p \in Procs |-> NoLoc]
  /\ calcIn \in [difficulty : {0}, dates : {{}}, xp : 0..MaxLevelXP]
  /\ calcOut = NoOut
  /\ answered = NoAnswer
  /\ pairBefore = NoPair
  /\ client = NoClient

\* calculateLevel in its three copies
CalcLevel ==
  /\ "level" \notin calcOut.done
  /\ calcOut' = [calcOut EXCEPT !.level = calculateLevel(calcIn.xp),
                                !.levelUser = calculateLevel_user(calcIn.xp),
                                !.levelStore = addXP_level(calcIn.xp),
                                !.done = @ \cup {"level"}]
  /\ UNCHANGED <<dbVars, pc, loc, calcIn, answered, pairBefore, client>>

\* calculateLevelProgress in its two copies
CalcLevelProgress ==
  /\ "levelProgress" \notin calcOut.done
  /\ calcOut' = [calcOut EXCEPT
                   !.levelProgress = calculateLevelProgress(calcIn.xp),
                   !.levelProgressUser = calculateLevelProgress_user(calcIn.xp),
                   !.done = @ \cup {"levelProgress"}]
  /\ UNCHANGED <<dbVars, pc, loc, calcIn, answered, pairBefore, client>>

CalcRank ==
  /\ "currentRank" \notin calcOut.done
  /\ calcOut' = [calcOut EXCEPT !.currentRank = getRank(calcIn.xp),
                                !.done = @ \cup {"currentRank"}]
  /\ UNCHANGED <<dbVars, pc, loc, calcIn, answered, pairBefore, client>>

CalcNextRank ==
  /\ "nextRank" \notin calcOut.done
  /\ calcOut' = [calcOut EXCEPT !.nextRank = getNextRank(calcIn.xp),
                                !.done = @ \cup {"nextRank"}]
  /\ UNCHANGED <<dbVars, pc, loc, calcIn, answered, pairBefore, client>>

NextLevel == CalcLevel \/ CalcLevelProgress \/ CalcRank \/ CalcNextRank

SpecLevel == InitLevel /\ [][NextLevel]_vars

\* ======================================================================
\* Claims
\* ======================================================================

\* The number of consecutive days from `from' backwards that are in dateSet
RECURSIVE ConsecutiveDays(_, _)
ConsecutiveDays(dateSet, from) ==
  IF from \in dateSet THEN 1 + ConsecutiveDays(dateSet, from - 1) ELSE 0

\* The streak as the specification states it: consecutive days counted back
\* from today when today has a record and from yesterday otherwise, within
\* the lookback of Lookback days (today included)
ExpectedStreak(dateSet, now) ==
  IF now \in dateSet
  THEN Min(ConsecutiveDays(dateSet, now), Lookback)
  ELSE Min(ConsecutiveDays(dateSet, now - 1), Lookback - 1)

\* The days on which the user has a completed record, of any habit
allDates == {c.date : c \in completions}

\* The days on which an active habit of the user has a completed record
activeDates == {c.date : c \in {x \in completions : x.habitId \in ActiveHabits(St)}}

\* A step in which a toggleCompletion request ran and its updateUserStreak
\* stored a streak (the user has an active habit)
StreakStored == completions' # completions /\ ActiveHabits(St) # {}

\* C1: calculateStreak tolerates only a missing record for today: the count
\* stops at the first day before today with no completed record (today and
\* yesterday with a gap two days ago give 2 whatever lies beyond the gap;
\* today and two days ago with nothing yesterday give 1).
C1_StreakStopsAtFirstGap ==
  calcOut.streak # -1 => calcOut.streak = ExpectedStreak(calcIn.dates, today)

\* C2: with at least one active habit, updateUserStreak stores as
\* currentStreak the number of consecutive days with a completed record,
\* counted back from today when today has one and from yesterday otherwise;
\* any earlier empty day ends the count.
C2_UserStreakCountsConsecutiveDays ==
  [][StreakStored => user'.currentStreak = ExpectedStreak(allDates', today')]_vars

C2_Witness ==
  /\ ActiveHabits(St) # {}
  /\ today \notin allDates
  /\ {today - 1, today - 2} \subseteq allDates
  /\ user.currentStreak = 2

\* C3, per habit: no record gives 0, one record today gives 1, one record
\* yesterday gives 1, one record two or more days ago gives 0.
C3_CalcBase ==
  \A h \in HabitIds :
    LET D == habitDates(St, h)
        streak == calculateStreak(D, today)
    IN /\ D = {} => streak = 0
       /\ D = {today} => streak = 1
       /\ D = {today - 1} => streak = 1
       /\ \A d \in Days : d <= today - 2 /\ D = {d} => streak = 0

\* C3, user level: the same four cases of the stored currentStreak.
C3_UserBase ==
  /\ completions = {} => user.currentStreak = 0
  /\ Cardinality(completions) = 1 =>
       /\ allDates = {today} => user.currentStreak = 1
       /\ allDates = {today - 1} => user.currentStreak = 1
       /\ \A d \in Days : d <= today - 2 /\ allDates = {d} => user.currentStreak = 0

\* C3: the streak base cases hold of calculateStreak in every state and of
\* the streak updateUserStreak stores.
C3_StreakBaseCases ==
  [][C3_CalcBase /\ C3_CalcBase' /\ (StreakStored => C3_UserBase')]_vars

C3_Witness ==
  \E h \in HabitIds :
    /\ completions = {[habitId |-> h, date |-> today - 1]}
    /\ calculateStreak(habitDates(St, h), today) = 1
    /\ user.currentStreak = 1

\* D is exactly the Cardinality(D) consecutive days ending yesterday
RunEndingYesterday(D) ==
  /\ D # {}
  /\ \A d \in D : today - Cardinality(D) <= d /\ d <= today - 1

\* C4, per habit: records on exactly the k days ending yesterday give k.
C4_Calc ==
  \A h \in HabitIds :
    LET D == habitDates(St, h)
    IN RunEndingYesterday(D) => calculateStreak(D, today) = Cardinality(D)

\* C4, user level: the stored currentStreak in the same case.
C4_User ==
  RunEndingYesterday(allDates) => user.currentStreak = Cardinality(allDates)

\* C4: completed records on exactly the k consecutive days ending yesterday
\* and none today give streak k, for calculateStreak and for updateUserStreak.
C4_RunEndingYesterday ==
  [][C4_Calc /\ C4_Calc' /\ (StreakStored => C4_User')]_vars

C4_Witness ==
  \E h \in HabitIds :
    /\ habitDates(St, h) = {today - 2, today - 1}
    /\ allDates = {today - 2, today - 1}
    /\ calculateStreak(habitDates(St, h), today) = 2
    /\ user.currentStreak = 2

\* C5: the user-level streak counts a day only if an active habit has a
\* completed record on it; records of archived habits do not extend it.
C5_ArchivedRecordsDoNotCount ==
  [][StreakStored => user'.currentStreak = ExpectedStreak(activeDates', today')]_vars

\* C6: with requests one at a time, longestStreak never decreases and is at
\* least currentStreak after every request.
C6_LongestStreakMonotone ==
  [][/\ user'.longestStreak >= user.longestStreak
     /\ user'.longestStreak >= user'.currentStreak]_vars

C6_Witness ==
  /\ user.longestStreak = 2
  /\ user.currentStreak = 0
  /\ completions = {}

\* C7: longestStreak never decreases when the steps of two toggleCompletion
\* requests interleave.
C7_LongestStreakMonotoneInterleaved ==
  [][user'.longestStreak >= user.longestStreak]_vars

\* 10 x multiplier rounded to the nearest multiple of 10
NearestTen(difficulty) ==
  MathRound(baseXP * multiplierTimes100[difficulty], 100 * 10) * 10

\* C8: calculateXPReward(d) is 10 x multiplier[d] rounded to the nearest
\* multiple of 10; every reward is a multiple of 10 and the reward of
\* difficulty 3 is 10.
C8_RewardIsNearestTen ==
  calcOut.xpReward # -1 =>
    /\ calcOut.xpReward = NearestTen(calcIn.difficulty)
    /\ calcOut.xpReward % 10 = 0
    /\ calcIn.difficulty = 3 => calcOut.xpReward = 10

\* C9: the stored user XP is never negative.
C9_XPNeverNegative == user.xp >= 0

\* The achievements one pass has to unlock, from the stored aggregates
Qualifies(a) ==
  \/ /\ Achievement[a].criteriaType = "streak"
     /\ user.currentStreak >= Achievement[a].threshold
  \/ /\ Achievement[a].criteriaType = "total_completions"
     /\ Cardinality(completions) >= Achievement[a].threshold

NewlyUnlocked == {a \in AchievementIds : userAchievements[a] = 0 /\ Qualifies(a)}

\* C10: one checkAchievements pass unlocks exactly the achievements that are
\* not yet unlocked and whose aggregate is >= the threshold, all of them in
\* that pass, and adds each one's xpReward to the user's XP exactly once.
C10_PassUnlocksExactlyQualifying ==
  [][(pc[1] = "readUnlocked" /\ pc'[1] = "idle") =>
       /\ \A a \in AchievementIds :
            userAchievements'[a] =
              userAchievements[a] + (IF a \in NewlyUnlocked THEN 1 ELSE 0)
       /\ user'.xp = user.xp + SumOver(NewlyUnlocked,
                                       [a \in AchievementIds |-> Achievement[a].xpReward])]_vars

C10_Witness ==
  /\ pc[1] = "idle"
  /\ userAchievements["a1"] = 1
  /\ userAchievements["a2"] = 1
  /\ userAchievements["a3"] = 0
  /\ Cardinality(completions) = 2
  /\ user.xp = 2 * calculateXPReward(DefaultDifficulty)
                 + Achievement["a1"].xpReward + Achievement["a2"].xpReward

\* A step in which the checkAchievements run of slot p went from its first
\* query to its end
PassStep(p) == pc[p] = "readUnlocked" /\ pc'[p] = "idle"

\* The achievements a step unlocked
UnlockedByStep ==
  {a \in AchievementIds : userAchievements[a] = 0 /\ userAchievements'[a] = 1}

\* C11: with passes one after the other, a pass that finds every qualifying
\* achievement already unlocked unlocks nothing and adds no XP; an unlocked
\* (user, achievement) pair keeps its single row through every later request
\* and pass, also after the completions that met its threshold are
\* un-toggled, and its xpReward is never added again.
C11_SequentialPassesIdempotent ==
  [][/\ \A a \in AchievementIds :
          /\ userAchievements[a] >= 1 => userAchievements'[a] = userAchievements[a]
          /\ userAchievements'[a] <= 1
     /\ \A p \in Procs : PassStep(p) =>
          /\ user'.xp = user.xp + SumOver(UnlockedByStep,
                                          [a \in AchievementIds |-> Achievement[a].xpReward])
          /\ NewlyUnlocked = {} =>
               /\ user' = user
               /\ userAchievements' = userAchievements
               /\ activityLog' = activityLog]_vars

\* The first pass has persisted its unlocks, the pass of the second request
\* is still to run, and the aggregates are the ones the first pass saw
C11_Witness ==
  /\ pc[1] = "idle"
  /\ pc[2] = "readUnlocked"
  /\ userAchievements["a1"] = 1
  /\ userAchievements["a2"] = 1
  /\ Cardinality(completions) = 2
  /\ user.currentStreak = 2
  /\ user.xp = 2 * calculateXPReward(DefaultDifficulty)
                 + Achievement["a1"].xpReward + Achievement["a2"].xpReward

\* The XP the unlocked-achievement rows stand for
AchievementXP ==
  SumOver(AchievementIds,
          [a \in AchievementIds |-> userAchievements[a] * Achievement[a].xpReward])

\* The XP the completion records stand for
CompletionXP ==
  SumOver(completions, [c \in completions |-> habits[c.habitId].xpReward])

\* C12: however the un-awaited checkAchievements runs of one user's requests
\* interleave, no (user, achievement) pair gets a second row, and once every
\* run has ended the XP above that of the completion records is at most one
\* xpReward per unlocked achievement.
C12_NoDoubleAward ==
  /\ \A a \in AchievementIds : userAchievements[a] <= 1
  /\ AllIdle =>
       user.xp - CompletionXP <=
         SumOver({a \in AchievementIds : userAchievements[a] >= 1},
                 [a \in AchievementIds |-> Achievement[a].xpReward])

\* The XP change a request has still to make for the record it created or
\* deleted, and the reward a run has still to add for the row it created
XPDue(p) ==
  CASE pc[p] = "incrementXP" -> loc[p].xpReward
    [] pc[p] = "decrementXP" -> -loc[p].xpReward
    [] pc[p] = "awardXP" -> Achievement[Head(loc[p].achievements)].xpReward
    [] OTHER -> 0

C14_LevelFormula ==
  "level" \in calcOut.done =>
    LET L == calcOut.level
    IN /\ L >= 1
       /\ 50 * (L - 1) * (L - 1) <= calcIn.xp
       /\ calcIn.xp < 50 * L * L
       /\ calcOut.levelUser = L
       /\ calcOut.levelStore = L
       /\ calcIn.xp > 0 =>
            /\ calculateLevel(calcIn.xp - 1) <= L
            /\ calculateLevel_user(calcIn.xp - 1) <= calcOut.levelUser
            /\ addXP_level(calcIn.xp - 1) <= calcOut.levelStore

C14_Witness ==
  /\ "level" \in calcOut.done
  /\ calcIn.xp = 1249
  /\ calcOut.level = 5
  /\ calcOut.levelUser = 5
  /\ calcOut.levelStore = 5

\* C15: for xp >= 0 progressPercent is an integer in [0, 100] (in both
\* copies of calculateLevelProgress) and 0 <= xpInLevel < xpForNextLevel.
C15_ProgressInRange ==
  "levelProgress" \in calcOut.done =>
    /\ calcOut.levelProgress.progressPercent \in 0..100
    /\ calcOut.levelProgressUser.progressPercent \in 0..100
    /\ 0 <= calcOut.levelProgress.xpInLevel
    /\ calcOut.levelProgress.xpInLevel < calcOut.levelProgress.xpForNextLevel

\* The last XP of level 3: 249 of 250 is 99.6 percent, which rounds to 100
C15_Witness ==
  /\ "levelProgress" \in calcOut.done
  /\ calcIn.xp = 449
  /\ calcOut.levelProgress.xpInLevel = 249
  /\ calcOut.levelProgress.xpForNextLevel = 250
  /\ calcOut.levelProgress.progressPercent = 100

\* xp - 1 and xp are in the same level
SameLevelBelow ==
  /\ calcIn.xp > 0
  /\ calculateLevel(calcIn.xp - 1) = calculateLevel(calcIn.xp)

\* C16 as stated: within one level progressPercent is strictly increasing in
\* xp (here for xp - 1 and xp, the nearest pair).
C16_ProgressStrictlyMonotone ==
  ("levelProgress" \in calcOut.done /\ SameLevelBelow) =>
    calculateLevelProgress(calcIn.xp - 1).progressPercent
      < calcOut.levelProgress.progressPercent

\* C16, amended: within one level progressPercent never decreases as xp
\* grows (for xp - 1 and xp, hence for every pair of the level).
C16_ProgressNonDecreasing ==
  ("levelProgress" \in calcOut.done /\ SameLevelBelow) =>
    calculateLevelProgress(calcIn.xp - 1).progressPercent
      <= calcOut.levelProgress.progressPercent

\* 51 and 52 XP are both 1 percent of level 2
C16_Witness ==
  /\ "levelProgress" \in calcOut.done
  /\ calcIn.xp = 52
  /\ SameLevelBelow
  /\ calcOut.levelProgress.progressPercent = 1
  /\ calculateLevelProgress(calcIn.xp - 1).progressPercent = 1

\* The k whose boundary 50 k^2 is within the XP range
Boundaries == 1..FloorSqrt(MaxLevelXP, 50, 0)

\* C17: at xp = 50 k^2 the level is k + 1 and progressPercent is 0; at
\* xp = 50 k^2 - 1 the level is still k.
C17_BoundaryResetsProgress ==
  \A k \in Boundaries :
    /\ (calcIn.xp = 50 * k * k /\ "level" \in calcOut.done) =>
         calcOut.level = k + 1
    /\ (calcIn.xp = 50 * k * k /\ "levelProgress" \in calcOut.done) =>
         /\ calcOut.levelProgress.level = k + 1
         /\ calcOut.levelProgress.progressPercent = 0
         /\ calcOut.levelProgressUser.progressPercent = 0
    /\ (calcIn.xp = 50 * k * k - 1 /\ "level" \in calcOut.done) =>
         calcOut.level = k
    /\ (calcIn.xp = 50 * k * k - 1 /\ "levelProgress" \in calcOut.done) =>
         calcOut.levelProgress.level = k

C17_Witness ==
  /\ {"level", "levelProgress"} \subseteq calcOut.done
  /\ calcIn.xp = 450
  /\ calcOut.level = 4
  /\ calcOut.levelProgress.progressPercent = 0

\* C18: as the doc comment of calculateLevel in the user router says, XP
\* 0-99 is level 1, XP 100-299 level 2 and XP 300-599 level 3.
C18_LevelsOfDocComment ==
  "level" \in calcOut.done =>
    /\ calcIn.xp \in 0..99 => calcOut.levelUser = 1
    /\ calcIn.xp \in 100..299 => calcOut.levelUser = 2
    /\ calcIn.xp \in 300..599 => calcOut.levelUser = 3

\* The index of the last entry of RANKS whose minXP is at most xp
RankIndex(xp) ==
  CHOOSE i \in 1..Len(RANKS) :
    /\ RANKS[i].minXP <= xp
    /\ \A j \in (i + 1)..Len(RANKS) : RANKS[j].minXP > xp

\* C19: getRank(xp) is the highest-indexed entry of RANKS with minXP <= xp
\* (an xp equal to a threshold has that rank), getRank(0) is the first entry,
\* the index is not below that of xp - 1, and RANKS starts at minXP 0 and
\* is strictly increasing in minXP.
C19_RankIsHighestReached ==
  /\ RANKS[1].minXP = 0
  /\ \A i \in 1..(Len(RANKS) - 1) : RANKS[i].minXP < RANKS[i + 1].minXP
  /\ "currentRank" \in calcOut.done =>
       /\ calcOut.currentRank = RANKS[RankIndex(calcIn.xp)]
       /\ \A i \in 1..Len(RANKS) :
            calcIn.xp = RANKS[i].minXP => calcOut.currentRank = RANKS[i]
       /\ calcIn.xp = 0 => calcOut.currentRank = RANKS[1]
       /\ calcIn.xp > 0 =>
            findIndex(getRank(calcIn.xp - 1).id) <= findIndex(calcOut.currentRank.id)

C19_Witness ==
  /\ "currentRank" \in calcOut.done
  /\ calcIn.xp = 300
  /\ calcOut.currentRank.id = "silver"

\* C20: getNextRank(xp) is null exactly when getRank(xp) is the last rank;
\* otherwise it is the entry after the current rank with
\* xpRequired = next.minXP - xp > 0 and
\* progress = round(100 (xp - current.minXP) / (next.minXP - current.minXP)),
\* which is in [0, 100].
C20_NextRankProgress ==
  "nextRank" \in calcOut.done =>
    LET i == RankIndex(calcIn.xp)
        next == calcOut.nextRank
    IN /\ next.isNull <=> i = Len(RANKS)
       /\ ~next.isNull =>
            /\ next.id = RANKS[i + 1].id
            /\ next.xpRequired = RANKS[i + 1].minXP - calcIn.xp
            /\ next.xpRequired > 0
            /\ next.progress = MathRound(100 * (calcIn.xp - RANKS[i].minXP),
                                         RANKS[i + 1].minXP - RANKS[i].minXP)
            /\ next.progress \in 0..100

\* C21: a habits mutation (update, toggleCompletion, archive, restore,
\* delete, reorder, togglePin) changes no field of a habit that belongs to
\* another user and adds or removes no completion record of it.
C21_OnlyOwnHabitsChange ==
  [][\A h \in HabitIds :
       (habits[h].exists /\ habits[h].userId # UserId) =>
         /\ habits'[h] = habits[h]
         /\ {c \in completions' : c.habitId = h} = {c \in completions : c.habitId = h}]_vars

\* C22: every claimDailyBonus request, one after another, either succeeds on
\* a day with no claim logged yet and then adds exactly 10 * m GOLD and
\* 5 * m XP, m = min(floor(currentStreak / 7) + 1, 5), and logs the claim,
\* or fails with BAD_REQUEST on a day already claimed and leaves GOLD, XP and
\* the log as they were.
ClaimedToday ==
  \E e \in activityLog : e.action = "daily_bonus_claimed" /\ e.day = today

C22_DailyBonusOncePerDay ==
  [][(answered' # answered /\ answered'.request = "claimDailyBonus") =>
       LET m == Min((user.currentStreak \div 7) + 1, 5)
       IN IF ClaimedToday
          THEN /\ answered'.outcome = "BAD_REQUEST"
               /\ UNCHANGED <<resources, user, activityLog>>
          ELSE /\ answered'.outcome = "OK"
               /\ resources'["GOLD"].amount = resources["GOLD"].amount + 10 * m
               /\ user'.xp = user.xp + 5 * m
               /\ activityLog' = activityLog \cup
                    {[action |-> "daily_bonus_claimed", day |-> today]}]_vars

C22_Witness ==
  /\ answered.request = "claimDailyBonus"
  /\ answered.outcome = "BAD_REQUEST"
  /\ resources["GOLD"].amount = 50
  /\ user.currentStreak > 28

\* C23: no completion record is dated after today, and a toggleCompletion
\* request that names a later date answers BAD_REQUEST at its first line,
\* with completions, XP, streaks and the activity log left as they are.
C23_NoFutureCompletion ==
  /\ \A c \in completions : c.date <= today
  /\ \A h \in HabitIds, d \in Days :
       d > today =>
         LET s == toggleCompletion_findHabit(St, 1, h, d)
         IN /\ s.result[1] = "BAD_REQUEST"
            /\ s.pc[1] = "idle"
            /\ s.completions = completions
            /\ s.user = user
            /\ s.activityLog = activityLog

C23_Witness ==
  /\ \A h \in HabitIds : habits[h].exists
  /\ [habitId |-> HabitOrder[1], date |-> today] \in completions
  /\ user.xp > 0
  /\ user.currentStreak > 0
  /\ \E d \in Days : d > today

\* The streak updateUserStreak's walk computes from the records of state s
WalkedStreak(s) ==
  LET start == [s EXCEPT !.pc[1] = "countDay",
                         !.loc[1] = [NoLoc EXCEPT !.currentDate = s.today]]
  IN RunUntil(start, 1, {"readLongest"}).loc[1].streak

\* A step in which a toggleCompletion request succeeded
ToggleSucceeded == completions' # completions /\ answered' = answered

\* A step in which a repairStreak request succeeded
RepairSucceeded ==
  /\ answered' # answered
  /\ answered'.request = "repairStreak"
  /\ answered'.outcome = "OK"

StAfter ==
  [today |-> today', habits |-> habits', completions |-> completions',
   user |-> user', userAchievements |-> userAchievements',
   activityLog |-> activityLog', resources |-> resources',
   pc |-> [p \in Procs |-> "idle"], loc |-> [p \in Procs |-> NoLoc],
   result |-> [p \in Procs |-> "none"]]

\* C24: after every successful toggleCompletion or repairStreak request, one
\* at a time, the stored currentStreak is the user-level streak of the
\* completion records of that moment: the one updateUserStreak's walk
\* computes from them, or the one counted over the active habits' records.
C24_StoredStreakIsCurrent ==
  [][(ToggleSucceeded \/ RepairSucceeded) =>
       user'.currentStreak \in {WalkedStreak(StAfter),
                                ExpectedStreak(activeDates', today')}]_vars

\* C25: for a user whose only habit is one active habit, the currentStreak
\* updateUserStreak stores equals calculateStreak of that habit's completion
\* dates with the same today.
C25_WalksAgree ==
  [][StreakStored =>
       user'.currentStreak =
         calculateStreak(habitDates(StAfter, HabitOrder[1]), today')]_vars

\* C26: a toggle-on followed by a toggle-off of the same habit and day, with
\* no other request in between, leaves the completion records as they were
\* and the XP at its prior value plus the rewards of the achievements the
\* pass of the toggle-on has unlocked; the toggle-off deducts the amount the
\* toggle-on added.  (A pass that has created a row and not yet added its
\* reward owes the reward: XPDue.)
C26_OnThenOffRestores ==
  pairBefore.taken =>
    /\ pc[2] = "decrementXP" => loc[2].xpReward = pairBefore.added
    /\ pc[2] = "idle" =>
         /\ completions = pairBefore.completions
         /\ user.xp + XPDue(1) = pairBefore.xp +
              SumOver(AchievementIds,
                      [a \in AchievementIds |->
                         (userAchievements[a] - pairBefore.rows[a])
                           * Achievement[a].xpReward])

C26_Witness ==
  /\ pairBefore.taken
  /\ AllIdle
  /\ user.xp > pairBefore.xp
  /\ pairBefore.added # calculateXPReward(DefaultDifficulty)
  /\ pairBefore.completions # {}

\* C27: repairStreak(daysAgo) costs 50 GOLD for daysAgo = 1, 25 ELIXIR for
\* daysAgo 2..3 and 10 DARK_MATTER for daysAgo 4..7.  With the row of that
\* resource missing or its amount below the cost the request answers
\* BAD_REQUEST and changes no resource, completion or activity-log record;
\* otherwise it succeeds, deducts exactly the cost, and every active habit of
\* the user has a completed record on the target day.
C27_RepairCostsAndEffects ==
  [][(answered' # answered /\ answered'.request = "repairStreak") =>
       LET daysAgo == answered'.input
           r == IF daysAgo = 1 THEN "GOLD"
                ELSE IF daysAgo \in 2..3 THEN "ELIXIR" ELSE "DARK_MATTER"
           c == IF daysAgo = 1 THEN 50 ELSE IF daysAgo \in 2..3 THEN 25 ELSE 10
       IN IF ~resources[r].exists \/ resources[r].amount < c
          THEN /\ answered'.outcome = "BAD_REQUEST"
               /\ UNCHANGED <<resources, completions, activityLog>>
          ELSE /\ answered'.outcome = "OK"
               /\ resources' = [resources EXCEPT ![r].amount = @ - c]
               /\ \A h \in ActiveHabits(St) :
                    [habitId |-> h, date |-> today - daysAgo] \in completions']_vars

C27_Witness ==
  /\ answered.request = "repairStreak"
  /\ answered.outcome = "OK"
  /\ answered.input = MaxDaysAgo
  /\ resources["DARK_MATTER"].amount = 5
  /\ habits[HabitOrder[2]].isArchived
  /\ {c.habitId : c \in {x \in completions : x.date = today - MaxDaysAgo}}
       = {HabitOrder[1]}

\* C28: no userResource amount is negative, however addResource,
\* claimDailyBonus and repairStreak requests of the user interleave.
C28_ResourcesNeverNegative ==
  \A t \in ResourceTypes : resources[t].amount >= 0

\* C29: toggleCompletion of the client store is its own inverse on every
\* habit the store holds: applied twice it restores isCompletedToday and
\* currentStreak; and currentStreak is never negative.
C29_StoreToggleIsInvolution ==
  /\ store_toggleCompletion(store_toggleCompletion(client.habit)) = client.habit
  /\ client.habit.currentStreak >= 0
  /\ store_toggleCompletion(client.habit).currentStreak >= 0

\* What getAll answers for the habit from the tables as they are
ServerHabit == getAll_calculateStreak(St, getAll_findHabits(St))

\* C30: when the onError handler of a failed toggle mutation has run, and no
\* other toggle mutation or query is in flight, the store's isCompletedToday
\* and currentStreak of the habit are the server's.
C30_ErrorRevertsToServerState ==
  [][(\E p \in Procs : /\ client.mutation[p].stage = "error"
                       /\ client'.mutation[p].stage = "none"
                       /\ \A q \in Procs : client'.mutation[q].stage = "none"
                       /\ client'.query.stage = "idle")
       => client'.habit = ServerHabit']_vars

====
